---- MODULE Spec2Model ----
(***************************************************************************)
(* Mock weather pipeline: generate_mock_weather_data -> analyze_weather_   *)
(* data, as implemented in src/example.py and src/Airflow.py.              *)
(*                                                                         *)
(* Units.  Temperatures before rounding are in milli-degrees Celsius;      *)
(* round(x, 2) turns them into centi-degrees, the unit of every stored     *)
(* 'temp'.  Time is in whole seconds since the epoch (UTC).                *)
(***************************************************************************)
EXTENDS Integers, Sequences, FiniteSets, TLC

VARIABLES pc, variant, clock, i, weather_data, noise, condSeed, out, stats

vars == <<pc, variant, clock, i, weather_data, noise, condSeed, out, stats>>

(* ------------------------------ constants ------------------------------ *)

NUM_DAYS_TO_GENERATE == 7
HOURS_IN_A_DAY == 24
\* degrees Celsius
BASE_TEMPERATURE_CELSIUS == 25
TEMP_FLUCTUATION_FACTOR == -20
\* 1.5 degrees Celsius, in milli-degrees
RANDOM_TEMP_VARIATION == 1500
ANOMALY_STD_DEV_THRESHOLD == 2
\* the injected anomalies: list indices (0-based, as in the source) and
\* temperatures in centi-degrees
COLD_SNAP_INDEX == 20
HEAT_SPIKE_INDEX == 80
COLD_SNAP_TEMP == 1500
HEAT_SPIKE_TEMP == 4000

Variants == {"example", "Airflow"}

weather_conditions ==
    <<"clear sky", "few clouds", "scattered clouds", "light rain", "moderate rain">>

(* ------------------------------- bounds -------------------------------- *)

\* the UTC day (days since the epoch) on which generation starts:
\* 19785 is 2024-03-03, so the seven days before it span 29 February
StartDay == 19785
\* the clock advances by 0 or by MaxTick seconds before each read of now()
MaxTick == 1
\* a dataset handed directly to analyze_weather_data repeats one record up
\* to MaxPad times, between an optional first and an optional last record
MaxPad == 10
\* random.choice(weather_conditions) is driven by a seed in 0..MaxCondSeed
MaxCondSeed == 1

\* times of day (seconds after midnight) at which generation may start
StartTimes == {43200, 86399}

\* values random.uniform(-1.5, 1.5) may return, in milli-degrees
NoiseLevels == {-RANDOM_TEMP_VARIATION, 4, RANDOM_TEMP_VARIATION}

\* the hours whose noise is drawn as noise.day; the others draw noise.night
DayHours == 7..17

(* ------------------------- datetime arithmetic ------------------------- *)

\* datetime.datetime.fromtimestamp(t, tz=utc) / datetime.now(utc): the
\* broken-down UTC time of epoch second t
fromtimestamp(t) ==
    [ord    |-> t \div 86400,
     hour   |-> (t % 86400) \div 3600,
     minute |-> (t % 3600) \div 60,
     second |-> t % 60]

\* day + datetime.timedelta(days=n)
plus_days(d, n) == [d EXCEPT !.ord = d.ord + n]

\* day - datetime.timedelta(days=n)
minus_days(d, n) == [d EXCEPT !.ord = d.ord - n]

\* day.replace(hour=h, minute=0, second=0, microsecond=0)
replace_hour(d, h) == [d EXCEPT !.hour = h, !.minute = 0, !.second = 0]

\* int(record_time.timestamp()) of a naive datetime holding UTC fields on a
\* host whose local time is UTC+05:30
timestamp_naive(d) ==
    d.ord * 86400 + d.hour * 3600 + d.minute * 60 + d.second - 19800

\* int(record_time.timestamp()) of an aware UTC datetime
timestamp(d) == d.ord * 86400 + d.hour * 3600 + d.minute * 60 + d.second

\* the proleptic Gregorian calendar date <<year, month, day>> of a day
\* number (days since 1970-01-01)
CivilFromDays(ord) ==
    LET z   == ord + 719468
        era == z \div 146097
        doe == z - era * 146097
        yoe == (doe - doe \div 1460 + doe \div 36524 - doe \div 146096) \div 365
        doy == doe - (365 * yoe + yoe \div 4 - yoe \div 100)
        mp  == (5 * doy + 2) \div 153
        d   == doy - (153 * mp + 2) \div 5 + 1
        m   == IF mp < 10 THEN mp + 3 ELSE mp - 9
        y   == yoe + era * 400 + (IF m <= 2 THEN 1 ELSE 0)
    IN <<y, m, d>>

\* day.strftime('%Y-%m-%d'): the date fields of the datetime
strftime_date(d) == CivilFromDays(d.ord)

(* ------------------------------ generator ------------------------------ *)

\* round(x, 2) of a temperature x given in milli-degrees: the nearest
\* centi-degree, ties to even
round2(x) ==
    LET q == x \div 10
        r == x % 10
    IN IF r < 5 THEN q
       ELSE IF r > 5 THEN q + 1
       ELSE IF q % 2 = 0 THEN q ELSE q + 1

\* temp_offset = (hour - 12) ** 2 / TEMP_FLUCTUATION_FACTOR, in milli-degrees
temp_offset(hour) ==
    -(((hour - 12) * (hour - 12) * 1000) \div (-TEMP_FLUCTUATION_FACTOR))

\* random.uniform(-RANDOM_TEMP_VARIATION, RANDOM_TEMP_VARIATION) for the
\* record of the given hour, under the noise stream ns
uniform(ns, hour) == IF hour \in DayHours THEN ns.day ELSE ns.night

\* temp = round(BASE + temp_offset + uniform(...), 2), in centi-degrees
simulated_temp(ns, hour) ==
    round2(BASE_TEMPERATURE_CELSIUS * 1000 + temp_offset(hour) + uniform(ns, hour))

\* random.choice(weather_conditions) for the record appended at list index idx
\* (Airflow.py only; example.py's records carry no 'weather' key)
choice(v, seed, idx) ==
    IF v = "Airflow"
    THEN weather_conditions[((seed + idx) % Len(weather_conditions)) + 1]
    ELSE "absent"

\* the dictionary appended for one hour of one day
make_record(v, day, hour, ns, seed, idx) ==
    [dt       |-> timestamp(replace_hour(day, hour)),
     date_str |-> strftime_date(day),
     temp     |-> simulated_temp(ns, hour),
     weather  |-> choice(v, seed, idx)]

\* the 24 records of the inner loop, for hour in range(HOURS_IN_A_DAY)
day_records(v, day, ns, seed, base) ==
    [k \in 1..HOURS_IN_A_DAY |->
        make_record(v, day, k - 1, ns, seed, base + k - 1)]

\* range(1, NUM_DAYS_TO_GENERATE)
day_offsets_short == 1..(NUM_DAYS_TO_GENERATE - 1)

\* range(1, NUM_DAYS_TO_GENERATE + 1)
day_offsets == 1..NUM_DAYS_TO_GENERATE

\* the injection with the source's indices taken as 1-based positions
inject_anomalies_shifted(v, data) ==
    IF v = "example" /\ ~(Len(data) > HEAT_SPIKE_INDEX)
    THEN data
    ELSE [data EXCEPT ![COLD_SNAP_INDEX].temp = COLD_SNAP_TEMP,
                      ![HEAT_SPIKE_INDEX].temp = HEAT_SPIKE_TEMP]

\* the anomaly injection after the loop; example.py guards it with
\* len(weather_data) > 80, Airflow.py does not
inject_anomalies(v, data) ==
    IF v = "example" /\ ~(Len(data) > HEAT_SPIKE_INDEX)
    THEN data
    ELSE [data EXCEPT ![COLD_SNAP_INDEX + 1].temp = COLD_SNAP_TEMP,
                      ![HEAT_SPIKE_INDEX + 1].temp = HEAT_SPIKE_TEMP]

(* ------------------- exact arithmetic on big naturals ------------------ *)
(* statistics.mean and statistics.stdev compute with exact fractions; the  *)
(* sums of squares of a 168-record dataset exceed 32 bits, so naturals are *)
(* kept as little-endian sequences of base-1000 digits without leading     *)
(* zeros (<<>> is 0).                                                      *)

RECURSIVE BigFrom(_)
BigFrom(n) == IF n = 0 THEN <<>> ELSE <<n % 1000>> \o BigFrom(n \div 1000)

RECURSIVE BigAddC(_, _, _)
BigAddC(a, b, c) ==
    IF a = <<>> /\ b = <<>> THEN BigFrom(c)
    ELSE LET x == IF a = <<>> THEN 0 ELSE Head(a)
             y == IF b = <<>> THEN 0 ELSE Head(b)
             v == x + y + c
         IN <<v % 1000>> \o BigAddC(IF a = <<>> THEN a ELSE Tail(a),
                                    IF b = <<>> THEN b ELSE Tail(b),
                                    v \div 1000)

BigAdd(a, b) == BigAddC(a, b, 0)

RECURSIVE BigMulC(_, _, _)
BigMulC(a, k, c) ==
    IF a = <<>> THEN BigFrom(c)
    ELSE LET v == Head(a) * k + c
         IN <<v % 1000>> \o BigMulC(Tail(a), k, v \div 1000)

\* a * k for a natural k below 2 000 000
BigMul(a, k) == IF k = 0 THEN <<>> ELSE BigMulC(a, k, 0)

\* the sign of a - b: -1, 0 or 1
RECURSIVE BigCmp(_, _)
BigCmp(a, b) ==
    IF Len(a) # Len(b) THEN (IF Len(a) < Len(b) THEN -1 ELSE 1)
    ELSE IF a = <<>> THEN 0
    ELSE LET n == Len(a)
         IN IF a[n] # b[n] THEN (IF a[n] < b[n] THEN -1 ELSE 1)
            ELSE BigCmp(SubSeq(a, 1, n - 1), SubSeq(b, 1, n - 1))

Abs(x) == IF x < 0 THEN -x ELSE x

(* ------------------------------- analyzer ------------------------------ *)

NoRecord == [dt |-> 0, date_str |-> <<0, 0, 0>>, temp |-> 0, weather |-> "absent"]

NoStats == [n |-> 0, sum |-> 0, sumsq |-> <<>>]

\* one printed line of the report: its kind, the list position (1-based)
\* of the record it shows (0 when it shows none) and that record
Line(kind, idx, rec) == [kind |-> kind, idx |-> idx, rec |-> rec]

\* all_temps = [record['temp'] for record in weather_data]
all_temps(data) == [k \in 1..Len(data) |-> data[k].temp]

\* the sum of temps[lo..hi], splitting the range in halves
RECURSIVE SumOver(_, _, _)
SumOver(temps, lo, hi) ==
    IF lo > hi THEN 0
    ELSE IF lo = hi THEN temps[lo]
    ELSE LET mid == (lo + hi) \div 2
         IN SumOver(temps, lo, mid) + SumOver(temps, mid + 1, hi)

\* the sum of the squares of temps[lo..hi]
RECURSIVE SumSqOver(_, _, _)
SumSqOver(temps, lo, hi) ==
    IF lo > hi THEN <<>>
    ELSE IF lo = hi THEN BigFrom(temps[lo] * temps[lo])
    ELSE LET mid == (lo + hi) \div 2
         IN BigAdd(SumSqOver(temps, lo, mid), SumSqOver(temps, mid + 1, hi))

\* what statistics.mean and statistics.stdev are computed from: the count,
\* the exact sum and the exact sum of squares.
\*   mean_temp = sum / n
\*   std_dev   = sqrt((n * sumsq - sum^2) / (n * (n - 1)))
statistics(temps) ==
    [n     |-> Len(temps),
     sum   |-> SumOver(temps, 1, Len(temps)),
     sumsq |-> SumSqOver(temps, 1, Len(temps))]

\* the deviation of the rational p/q from mean_temp, times n*q
Deviation(st, p, q) == st.n * p - q * st.sum

\* the sign of |p/q - mean_temp| - ANOMALY_STD_DEV_THRESHOLD * std_dev (a
\* variant that divides the squared deviations by n, not n - 1)
SpreadCmp_population(st, p, q) ==
    LET d   == Abs(Deviation(st, p, q))
        c   == ANOMALY_STD_DEV_THRESHOLD * ANOMALY_STD_DEV_THRESHOLD * st.n * q * q
        lhs == BigAdd(BigMul(BigMul(BigFrom(d), d), st.n),
                      BigMul(BigMul(BigFrom(Abs(st.sum)), Abs(st.sum)), c))
        rhs == BigMul(BigMul(st.sumsq, st.n), c)
    IN BigCmp(lhs, rhs)

\* the sign of |p/q - mean_temp| - ANOMALY_STD_DEV_THRESHOLD * std_dev,
\* decided exactly by comparing
\*   (n-1) * (n*p - q*sum)^2   with   T^2 * n * q^2 * (n*sumsq - sum^2)
\* (the subtraction is moved to the left-hand side)
SpreadCmp(st, p, q) ==
    LET d   == Abs(Deviation(st, p, q))
        c   == ANOMALY_STD_DEV_THRESHOLD * ANOMALY_STD_DEV_THRESHOLD * st.n * q * q
        lhs == BigAdd(BigMul(BigMul(BigFrom(d), d), st.n - 1),
                      BigMul(BigMul(BigFrom(Abs(st.sum)), Abs(st.sum)), c))
        rhs == BigMul(BigMul(st.sumsq, st.n), c)
    IN BigCmp(lhs, rhs)

\* the sign of p/q - anomaly_threshold_high, where
\* anomaly_threshold_high = mean_temp + THRESHOLD * std_dev
cmp_high(st, p, q) == IF Deviation(st, p, q) >= 0 THEN SpreadCmp(st, p, q) ELSE -1

\* the sign of p/q - anomaly_threshold_low, where
\* anomaly_threshold_low = mean_temp - THRESHOLD * std_dev
cmp_low(st, p, q) == IF Deviation(st, p, q) <= 0 THEN -SpreadCmp(st, p, q) ELSE 1

\* not (anomaly_threshold_low < temp < anomaly_threshold_high)
is_anomaly_example_open(st, t) == ~(cmp_low(st, t, 1) > 0 /\ cmp_high(st, t, 1) < 0)

\* example.py: not (anomaly_threshold_low <= temp <= anomaly_threshold_high)
is_anomaly_example(st, t) == ~(cmp_low(st, t, 1) >= 0 /\ cmp_high(st, t, 1) <= 0)

\* Airflow.py: temp > anomaly_threshold_high or temp < anomaly_threshold_low
is_anomaly_Airflow(st, t) == cmp_high(st, t, 1) > 0 \/ cmp_low(st, t, 1) < 0

is_anomaly(v, st, t) ==
    IF v = "example" THEN is_anomaly_example(st, t) ELSE is_anomaly_Airflow(st, t)

Indices(data) == [k \in 1..Len(data) |-> k]

\* the list comprehension building 'anomalies', as list positions
anomaly_indices(v, data) ==
    LET st == statistics(all_temps(data))
    IN SelectSeq(Indices(data), LAMBDA k : is_anomaly(v, st, data[k].temp))

\* the records the first loop prints: those whose UTC hour is 12
noon_indices(data) ==
    SelectSeq(Indices(data), LAMBDA k : fromtimestamp(data[k].dt).hour = 12)

\* a scan that also replaces its candidate by an equal item
max_keeps_last(data, cand, k) == IF data[k].temp >= data[cand].temp THEN k ELSE cand

\* max() replaces its candidate only by a strictly greater item, so of
\* several maximal records the earliest is kept
max_keeps(data, cand, k) == IF data[k].temp > data[cand].temp THEN k ELSE cand

\* min() replaces its candidate only by a strictly smaller item
min_keeps(data, cand, k) == IF data[k].temp < data[cand].temp THEN k ELSE cand

\* max(weather_data[lo..hi], key=temp) as a list position: the scan of
\* lo..hi, evaluated by halves (the candidate of the left half meets the
\* candidate of the right half)
RECURSIVE max_scan(_, _, _)
max_scan(data, lo, hi) ==
    IF lo = hi THEN lo
    ELSE LET mid == (lo + hi) \div 2
         IN max_keeps(data, max_scan(data, lo, mid), max_scan(data, mid + 1, hi))

RECURSIVE min_scan(_, _, _)
min_scan(data, lo, hi) ==
    IF lo = hi THEN lo
    ELSE LET mid == (lo + hi) \div 2
         IN min_keeps(data, min_scan(data, lo, mid), min_scan(data, mid + 1, hi))

highest_temp_index(data) == max_scan(data, 1, Len(data))

lowest_temp_index(data) == min_scan(data, 1, Len(data))

\* section 3 of the report: nothing for a single record
anomaly_section(v, data) ==
    IF ~(Len(data) > 1) THEN <<>>
    ELSE LET found == anomaly_indices(v, data)
         IN <<Line("stats", 0, NoRecord)>>
            \o (IF found # <<>>
                THEN [k \in 1..Len(found) |-> Line("anomaly", found[k], data[found[k]])]
                ELSE <<Line("no_anomalies", 0, NoRecord)>>)

\* the analyzer with the early return taken for fewer than two records
analyze_weather_data_short(v, data) ==
    IF Len(data) <= 1 THEN <<Line("no_data", 0, NoRecord)>>
    ELSE LET noon == noon_indices(data)
             hi   == highest_temp_index(data)
             lo   == lowest_temp_index(data)
         IN [k \in 1..Len(noon) |-> Line("noon", noon[k], data[noon[k]])]
            \o <<Line("highest", hi, data[hi]), Line("lowest", lo, data[lo])>>
            \o anomaly_section(v, data)

\* everything analyze_weather_data prints, in order
analyze_weather_data(v, data) ==
    IF data = <<>> THEN <<Line("no_data", 0, NoRecord)>>
    ELSE LET noon == noon_indices(data)
             hi   == highest_temp_index(data)
             lo   == lowest_temp_index(data)
         IN [k \in 1..Len(noon) |-> Line("noon", noon[k], data[noon[k]])]
            \o <<Line("highest", hi, data[hi]), Line("lowest", lo, data[lo])>>
            \o anomaly_section(v, data)

\* mean_temp and std_dev as the report prints them (kept exact)
reported_stats(data) ==
    IF Len(data) > 1 THEN statistics(all_temps(data)) ELSE NoStats

(* ----------------------------- the program ----------------------------- *)

NoiseStreams == [day : NoiseLevels, night : NoiseLevels]

\* main(): a fresh process about to call generate_mock_weather_data
Init ==
    /\ pc = "generate"
    /\ variant \in Variants
    /\ clock \in {StartDay * 86400 + s : s \in StartTimes}
    /\ i = 1
    /\ weather_data = <<>>
    /\ noise \in NoiseStreams
    /\ condSeed \in 0..MaxCondSeed
    /\ out = <<>>
    /\ stats = NoStats

\* one iteration of the outer loop: read the clock, then append the 24
\* hourly records of the day i days before it
GenerateDay ==
    /\ pc = "generate"
    /\ i \in day_offsets
    /\ \E tick \in {0, MaxTick} :
         LET now == clock + tick
             day == minus_days(fromtimestamp(now), i)
         IN /\ clock' = now
            /\ weather_data' = weather_data
                 \o day_records(variant, day, noise, condSeed, Len(weather_data))
    /\ i' = i + 1
    /\ UNCHANGED <<pc, variant, noise, condSeed, out, stats>>

\* the loop is over: inject the anomalies and return the list to main()
InjectAnomalies ==
    /\ pc = "generate"
    /\ i \notin day_offsets
    /\ weather_data' = inject_anomalies(variant, weather_data)
    /\ pc' = "main"
    /\ UNCHANGED <<variant, clock, i, noise, condSeed, out, stats>>

\* main(): if weather_data: analyze_weather_data(weather_data)
MainCheck ==
    /\ pc = "main"
    /\ pc' = IF weather_data # <<>> THEN "analyze" ELSE "done"
    /\ UNCHANGED <<variant, clock, i, weather_data, noise, condSeed, out, stats>>

\* one call of analyze_weather_data
Analyze ==
    /\ pc = "analyze"
    /\ out' = analyze_weather_data(variant, weather_data)
    /\ stats' = reported_stats(weather_data)
    /\ pc' = "done"
    /\ UNCHANGED <<variant, clock, i, weather_data, noise, condSeed>>

Next == GenerateDay \/ InjectAnomalies \/ MainCheck \/ Analyze

Spec == Init /\ [][Next]_vars

(* ------------- analyze_weather_data called on any dataset -------------- *)

\* temperatures (centi-degrees) of the records handed to the analyzer
PoolTemps == {1000, 2000, 9000}

\* record times: 05:00 and 12:00 UTC of the start day
PoolTimes == {StartDay * 86400 + 5 * 3600, StartDay * 86400 + 12 * 3600}

Pool(v) ==
    {[dt       |-> t,
      date_str |-> strftime_date(fromtimestamp(t)),
      temp     |-> x,
      weather  |-> choice(v, 0, 0)] : t \in PoolTimes, x \in PoolTemps}

Repeat(r, m) == [k \in 1..m |-> r]

Short(v) == {<<>>} \cup {<<r>> : r \in Pool(v)}

Datasets(v) ==
    {a \o Repeat(r, m) \o b :
        a \in Short(v), b \in Short(v), r \in Pool(v), m \in 0..MaxPad}

InitAnalyze ==
    /\ pc = "analyze"
    /\ variant \in Variants
    /\ weather_data \in Datasets(variant)
    /\ clock = StartDay * 86400
    /\ i = 1
    /\ noise \in {[day |-> 4, night |-> 4]}
    /\ condSeed = 0
    /\ out = <<>>
    /\ stats = NoStats

NextAnalyze == Analyze

SpecAnalyze == InitAnalyze /\ [][NextAnalyze]_vars

(* ------------------------------ properties ----------------------------- *)

\* generate_mock_weather_data has returned
Generated == pc # "generate"

LinesOf(kind) == SelectSeq(out, LAMBDA l : l.kind = kind)

Timestamps == {weather_data[k].dt : k \in 1..Len(weather_data)}

\* the first list position (1-based) of day block b = 0, 1, ...
BlockStart(b) == b * HOURS_IN_A_DAY + 1

\* C1: once the generator has returned, the record timestamps, sorted, form
\* a contiguous sequence of 3600 s steps with no gap and no duplicate,
\* whatever clock values were read.
C1_ContiguousHourlySteps ==
    Generated =>
        /\ Cardinality(Timestamps) = Len(weather_data)
        /\ \A d \in Timestamps :
              \/ \A e \in Timestamps : d <= e
              \/ d - 3600 \in Timestamps

\* C2 (as stated): the returned dataset is oldest day first: for all list
\* positions j < k, record j's timestamp is strictly less than record k's.
C2_OldestDayFirst ==
    Generated =>
        \A j, k \in 1..Len(weather_data) :
            j < k => weather_data[j].dt < weather_data[k].dt

\* C2 (amended): the dataset is in generation order with the most recent
\* day first.  Every day block of 24 records starts at midnight UTC and
\* ascends in 3600 s steps (hours 0 to 23), and a block appended after a
\* clock read on the same UTC date as the previous read starts exactly
\* 86400 s before the block appended before it.
C2_NewestDayFirst ==
    [][Len(weather_data') = Len(weather_data) + HOURS_IN_A_DAY =>
        LET base == Len(weather_data)
        IN /\ weather_data'[base + 1].dt % 86400 = 0
           /\ \A h \in 1..(HOURS_IN_A_DAY - 1) :
                 weather_data'[base + 1 + h].dt = weather_data'[base + h].dt + 3600
           /\ \A k \in 1..base : weather_data'[k] = weather_data[k]
           /\ (base > 0 /\ clock' \div 86400 = clock \div 86400) =>
                 weather_data'[base + 1].dt
                    = weather_data[base + 1 - HOURS_IN_A_DAY].dt - 86400]_vars

\* C2 witness: a full dataset whose second day block lies one day before
\* its first, so that an earlier record carries the later timestamp
C2_Witness ==
    /\ Generated
    /\ Len(weather_data) = 168
    /\ weather_data[BlockStart(1)].dt = weather_data[BlockStart(0)].dt - 86400
    /\ weather_data[1].dt > weather_data[168].dt

\* C3: in a full 168-record dataset both injected records (list indices 20
\* and 80) are in the anomaly list analyze_weather_data reports, for every
\* choice of the noise.
C3_InjectedAnomaliesReported ==
    (pc = "done" /\ Len(weather_data) = 168) =>
        /\ \E n \in 1..Len(out) :
              out[n].kind = "anomaly" /\ out[n].idx = COLD_SNAP_INDEX + 1
        /\ \E n \in 1..Len(out) :
              out[n].kind = "anomaly" /\ out[n].idx = HEAT_SPIKE_INDEX + 1

\* C4: the returned dataset has exactly NUM_DAYS x 24 = 168 records.
C4_RecordCount == Generated => Len(weather_data) = 168

C4_Witness == pc = "main" /\ Len(weather_data) = 168 /\ clock % 86400 < 3600

\* C5: every record's date_str is the UTC calendar date of its dt.
C5_DateMatchesTimestamp ==
    \A k \in 1..Len(weather_data) :
        weather_data[k].date_str = CivilFromDays(weather_data[k].dt \div 86400)

\* C5 witness: generation that started one second before midnight and read
\* the clock again after it; the hour-23 record of the first block is dated
\* 2 March 2024 and the third block lies on 29 February
C5_Witness ==
    /\ Generated
    /\ clock % 86400 < 3600
    /\ weather_data[24].dt % 86400 = 23 * 3600
    /\ weather_data[24].date_str = <<2024, 3, 2>>
    /\ \E k \in 1..Len(weather_data) : weather_data[k].date_str = <<2024, 2, 29>>

\* the simulated temperature range of hour h, in centi-degrees:
\* 25 + (h-12)^2/-20 - 1.5 .. 25 + (h-12)^2/-20 + 1.5
InSimulatedRange(t, h) ==
    /\ 2500 - 5 * (h - 12) * (h - 12) - 150 <= t
    /\ t <= 2500 - 5 * (h - 12) * (h - 12) + 150

\* C6: in the returned dataset, which has more than 80 records, the record
\* at list index 20 has temperature exactly 15.0 and the one at index 80
\* exactly 40.0, and every other record has the simulated temperature of
\* its hour.
C6_InjectedTemperatures ==
    Generated =>
        /\ Len(weather_data) > 80
        /\ weather_data[21].temp = 1500
        /\ weather_data[81].temp = 4000
        /\ \A k \in 1..Len(weather_data) :
              k \notin {21, 81} =>
                 InSimulatedRange(weather_data[k].temp,
                                  fromtimestamp(weather_data[k].dt).hour)

\* C6 witness: a returned dataset whose noise would have put records 20 and
\* 80 far from the injected values
C6_Witness ==
    /\ Generated
    /\ Len(weather_data) = 168
    /\ noise.day = RANDOM_TEMP_VARIATION
    /\ noise.night = -RANDOM_TEMP_VARIATION
    /\ weather_data[21].temp = 1500
    /\ weather_data[20].temp = 2105

\* C7: for a non-empty dataset the reported highest temperature is >= every
\* record's, the reported lowest is <= every record's, and each is the
\* earliest record in list order with that temperature.
C7_ExtremesFirstOccurrence ==
    (pc = "done" /\ weather_data # <<>>) =>
        /\ Len(LinesOf("highest")) = 1
        /\ Len(LinesOf("lowest")) = 1
        /\ LET hi == LinesOf("highest")[1]
               lo == LinesOf("lowest")[1]
           IN /\ hi.rec = weather_data[hi.idx]
              /\ lo.rec = weather_data[lo.idx]
              /\ \A k \in 1..Len(weather_data) :
                    /\ weather_data[k].temp <= hi.rec.temp
                    /\ weather_data[k].temp >= lo.rec.temp
                    /\ k < hi.idx => weather_data[k].temp < hi.rec.temp
                    /\ k < lo.idx => weather_data[k].temp > lo.rec.temp

\* C7 witness: three or more records, the maximum shared by the first and
\* the last, the minimum shared by two records in between
C7_Witness ==
    /\ pc = "done"
    /\ Len(weather_data) >= 4
    /\ weather_data[1].temp = 9000
    /\ weather_data[Len(weather_data)].temp = 9000
    /\ weather_data[2].temp = 1000
    /\ weather_data[3].temp = 1000
    /\ LinesOf("highest")[1].idx = 1
    /\ LinesOf("lowest")[1].idx = 2

\* temperatures in whole degrees (the analyzer's inputs here are whole)
Degrees(k) == weather_data[k].temp \div 100

RECURSIVE DegreeSum(_)
DegreeSum(k) == IF k = 0 THEN 0 ELSE DegreeSum(k - 1) + Degrees(k)

RECURSIVE DegreeSquares(_)
DegreeSquares(k) ==
    IF k = 0 THEN 0 ELSE DegreeSquares(k - 1) + Degrees(k) * Degrees(k)

\* |t - mean| > 2 * stdev with the Bessel-corrected variance
\* (n*Q - S^2) / (n*(n-1)), cleared of fractions and roots
MoreThanTwoSigma(k) ==
    LET n == Len(weather_data)
        S == DegreeSum(n)
        Q == DegreeSquares(n)
    IN (n - 1) * (n * Degrees(k) - S) * (n * Degrees(k) - S) > 4 * n * (n * Q - S * S)

\* C8: for a dataset of more than one record, the records reported as
\* anomalies are, in dataset order, exactly those whose temperature is
\* strictly more than two sample standard deviations above or below the
\* mean, and the tests of example.py and Airflow.py flag the same records.
C8_AnomaliesTwoSigma ==
    (pc = "done" /\ Len(weather_data) > 1) =>
        LET found == LinesOf("anomaly")
        IN /\ [n \in 1..Len(found) |-> found[n].idx]
                 = SelectSeq(Indices(weather_data), MoreThanTwoSigma)
           /\ \A n \in 1..Len(found) : found[n].rec = weather_data[found[n].idx]
           /\ (found = <<>>) = (Len(LinesOf("no_anomalies")) = 1)
           /\ anomaly_indices("example", weather_data)
                 = anomaly_indices("Airflow", weather_data)

\* C8 witness: twelve records, the first and the last flagged (in that
\* order), ten equal ones in between not flagged
C8_Witness ==
    /\ pc = "done"
    /\ Len(weather_data) = 12
    /\ Len(LinesOf("anomaly")) = 2
    /\ LinesOf("anomaly")[1].idx = 1
    /\ LinesOf("anomaly")[2].idx = 12

\* C9: called with an empty dataset the analyzer prints the "no data"
\* notice and nothing else; for a non-empty dataset it never prints it.
C9_EmptyDatasetNotice ==
    pc = "done" =>
        /\ weather_data = <<>> => out = <<Line("no_data", 0, NoRecord)>>
        /\ weather_data # <<>> =>
              /\ LinesOf("no_data") = <<>>
              /\ Len(LinesOf("highest")) = 1

C9_Witness == pc = "done" /\ weather_data = <<>> /\ Len(out) = 1

\* C10: for temperatures [10.0, 20.0, 90.0] the mean is 40.0, the square of
\* the sample standard deviation is 1900, the thresholds are -47.18 and
\* 127.18 to two decimals, and no record is flagged.
C10_MaskedOutlierExample ==
    (pc = "done" /\ all_temps(weather_data) = <<1000, 2000, 9000>>) =>
        /\ stats.n = 3
        /\ stats.sum = 4000 * stats.n
        /\ BigAdd(BigFrom(1900 * 10000 * stats.n * (stats.n - 1)),
                  BigMul(BigFrom(stats.sum), stats.sum))
              = BigMul(stats.sumsq, stats.n)
        /\ cmp_high(stats, 25437, 2) > 0 /\ cmp_high(stats, 25435, 2) < 0
        /\ cmp_low(stats, -9437, 2) < 0 /\ cmp_low(stats, -9435, 2) > 0
        /\ LinesOf("anomaly") = <<>>
        /\ Len(LinesOf("no_anomalies")) = 1

C10_Witness ==
    /\ pc = "done"
    /\ all_temps(weather_data) = <<1000, 2000, 9000>>
    /\ variant = "Airflow"
    /\ Len(LinesOf("stats")) = 1

====
